---- MODULE Spec2Model ----
(***************************************************************************)
(* The HTTP bridge of remote-tsdb-clickhouse (main.go): the /write, /read, *)
(* / and /metrics handlers, the five process-wide Prometheus counters and  *)
(* the http.ResponseWriter each request writes to.  Every request is       *)
(* served by a goroutine of its own; a step of the model is one step of    *)
(* one handler, so all interleavings of the handlers are explored.         *)
(***************************************************************************)
EXTENDS Integers, Sequences, FiniteSets, TLC

\* Number of requests in flight at once.
NumReqs == 2
\* Largest sample count the adapter returns for one write.
MaxCount == 2

Reqs == 1..NumReqs

\* http.StatusNotFound, http.StatusInternalServerError
StatusNotFound == 404
StatusInternalServerError == 500

VARIABLES
    samplesWrittenTotal,  \* counter samples_written_total
    writeRequestsTotal,   \* counter write_requests_total
    writeErrorsTotal,     \* counter write_errors_total
    readRequestsTotal,    \* counter read_requests_total
    readErrorsTotal,      \* counter read_errors_total
    path,                 \* path[r]: the route request r was dispatched to
    pc,                   \* pc[r]: where request r's handler stands
    canceledAt,           \* canceledAt[r]: pc at which r.Context() was canceled
    decoded,              \* decoded[r]: outcome of Decode{Write,Read}Request
    adapterCalls,         \* adapterCalls[r]: calls of ch.WriteRequest/ReadRequest
    count,                \* count[r]: the count ch.WriteRequest returned
    err,                  \* err[r]: the error the handler ended up holding
    w,                    \* w[r]: the http.ResponseWriter of request r
    logged,               \* logged[r]: logger.Error entries written for r
    bodyClosed            \* bodyClosed[r]: r.Body.Close() has run

counters == <<samplesWrittenTotal, writeRequestsTotal, writeErrorsTotal,
              readRequestsTotal, readErrorsTotal>>
vars == <<samplesWrittenTotal, writeRequestsTotal, writeErrorsTotal,
          readRequestsTotal, readErrorsTotal, path, pc, canceledAt, decoded,
          adapterCalls, count, err, w, logged, bodyClosed>>

-----------------------------------------------------------------------------
(* Errors.  An error is the chain of its messages, outermost first; nil is  *)
(* the empty chain.                                                         *)

Nil == <<>>

\* context.Canceled
Canceled == <<"context canceled">>

\* fmt.Errorf(prefix + ": %w", e)
Wrap(prefix, e) == <<prefix>> \o e

\* errors.Is(e, target): e or any error it wraps equals target.
RECURSIVE Is(_, _)
Is(e, target) ==
    IF e = Nil THEN FALSE
    ELSE IF e = target THEN TRUE
    ELSE Is(Tail(e), target)

\* err.Error(): the messages of the chain joined by ": ".
RECURSIVE ErrorText(_)
ErrorText(e) ==
    IF Len(e) = 1 THEN e[1]
    ELSE e[1] \o ": " \o ErrorText(Tail(e))

\* Errors the wire codec reports for a body it cannot decode; reading the
\* body of a request whose context is canceled may report the cancellation.
DecodeErrs(r) ==
    {<<"snappy: corrupt input">>}
        \cup (IF canceledAt[r] # "never" THEN {Canceled} ELSE {})

\* Errors of the adapter's ReadRequest: a storage fault, or, when the
\* request's context is canceled, an error wrapping context.Canceled.
ReadErrs(r) ==
    {<<"dial tcp: connection refused">>}
        \cup (IF canceledAt[r] # "never"
              THEN {Canceled, Wrap("clickhouse", Canceled)} ELSE {})

\* Errors of the adapter's WriteRequest: storage faults only, the insert
\* runs to completion whether or not the request's context is canceled.
WriteErrs(r) == {<<"dial tcp: connection refused">>}

\* Sample counts the adapter's WriteRequest returns.
WriteCounts == 0..MaxCount

\* Errors of EncodeReadResponse.
EncodeErrs(r) ==
    {<<"write tcp: broken pipe">>}
        \cup (IF canceledAt[r] # "never" THEN {Canceled} ELSE {})

-----------------------------------------------------------------------------
(* http.ResponseWriter *)

NoHeader == [ContentType |-> "", ContentEncoding |-> ""]

\* A fresh response: nothing set, nothing sent.
NewResponse ==
    [header |-> NoHeader, wroteHeader |-> FALSE, status |-> 0,
     sent |-> NoHeader, body |-> <<>>]

\* w.Header().Set(key, value)
HeaderSet(rw, key, value) == [rw EXCEPT !.header[key] = value]

\* w.WriteHeader(code): the first call fixes the status line and the headers
\* on the wire; a later call is ignored.
WriteHeader(rw, code) ==
    IF rw.wroteHeader THEN rw
    ELSE [rw EXCEPT !.wroteHeader = TRUE, !.status = code, !.sent = rw.header]

\* w.Write(data): a write before WriteHeader sends status 200 first.
Write(rw, data) ==
    LET rw1 == WriteHeader(rw, 200)
    IN  [rw1 EXCEPT !.body = Append(@, data)]

\* A variant that prints the error text without writing the status.
HttpErrorNoStatus(rw, text, code) ==
    LET h == HeaderSet(rw, "ContentType", "text/plain; charset=utf-8")
    IN  Write(h, text \o "\n")

\* http.Error(w, text, code): sets the plain-text content type, writes the
\* status and prints the text as a line.  (Whether it also deletes the
\* Content-Encoding header depends on the Go release; nothing below reads
\* the Content-Encoding of an error response.)
HttpError(rw, text, code) ==
    LET h == HeaderSet(rw, "ContentType", "text/plain; charset=utf-8")
    IN  Write(WriteHeader(h, code), text \o "\n")

\* The status the client receives: the server sends 200 when the handler
\* returns without having written a header.
ClientStatus(rw) == IF rw.wroteHeader THEN rw.status ELSE 200

-----------------------------------------------------------------------------
Init ==
    /\ samplesWrittenTotal = 0
    /\ writeRequestsTotal = 0
    /\ writeErrorsTotal = 0
    /\ readRequestsTotal = 0
    /\ readErrorsTotal = 0
    /\ path = [r \in Reqs |-> ""]
    /\ pc = [r \in Reqs |-> "idle"]
    /\ canceledAt = [r \in Reqs |-> "never"]
    /\ decoded = [r \in Reqs |-> "pending"]
    /\ adapterCalls = [r \in Reqs |-> 0]
    /\ count = [r \in Reqs |-> 0]
    /\ err = [r \in Reqs |-> Nil]
    /\ w = [r \in Reqs |-> NewResponse]
    /\ logged = [r \in Reqs |-> <<>>]
    /\ bodyClosed = [r \in Reqs |-> FALSE]

\* r.Context() is canceled (the client went away) while the handler runs.
Cancel(r) ==
    /\ pc[r] \notin {"idle", "done"}
    /\ canceledAt[r] = "never"
    /\ canceledAt' = [canceledAt EXCEPT ![r] = pc[r]]
    /\ UNCHANGED <<counters, path, pc, decoded, adapterCalls, count, err, w,
                   logged, bodyClosed>>

\* The "/" handler.
Root(r) ==
    /\ pc[r] = "idle"
    /\ path' = [path EXCEPT ![r] = "/"]
    /\ w' = [w EXCEPT ![r] =
                Write(WriteHeader(@, StatusNotFound), "remote-tsdb-clickhouse")]
    /\ bodyClosed' = [bodyClosed EXCEPT ![r] = TRUE]
    /\ pc' = [pc EXCEPT ![r] = "done"]
    /\ UNCHANGED <<counters, canceledAt, decoded, adapterCalls, count, err,
                   logged>>

\* The "/metrics" handler: a read-only snapshot of the counters.
Metrics(r) ==
    /\ pc[r] = "idle"
    /\ path' = [path EXCEPT ![r] = "/metrics"]
    /\ w' = [w EXCEPT ![r] = Write(@, "metrics")]
    /\ pc' = [pc EXCEPT ![r] = "done"]
    /\ UNCHANGED <<counters, canceledAt, decoded, adapterCalls, count, err,
                   logged, bodyClosed>>

-----------------------------------------------------------------------------
(* The "/write" handler *)

\* writeRequestsTotal.Inc()
WriteBegin(r) ==
    /\ pc[r] = "idle"
    /\ path' = [path EXCEPT ![r] = "/write"]
    /\ writeRequestsTotal' = writeRequestsTotal + 1
    /\ pc' = [pc EXCEPT ![r] = "w_decode"]
    /\ UNCHANGED <<samplesWrittenTotal, writeErrorsTotal, readRequestsTotal,
                   readErrorsTotal, canceledAt, decoded, adapterCalls, count,
                   err, w, logged, bodyClosed>>

\* A variant whose err != nil branch lacks the return: the handler goes on
\* to the adapter after reporting the decode error.
WriteDecodeFallsThrough(r) ==
    /\ pc[r] = "w_decode"
    /\ \E e \in {Nil} \cup DecodeErrs(r) :
        IF e # Nil
        THEN /\ decoded' = [decoded EXCEPT ![r] = "failed"]
             /\ writeErrorsTotal' = writeErrorsTotal + 1
             /\ logged' = [logged EXCEPT ![r] =
                    Append(@, [msg |-> "DecodeWriteRequest", error |-> e])]
             /\ w' = [w EXCEPT ![r] =
                    HttpError(@, ErrorText(e), StatusInternalServerError)]
             /\ err' = [err EXCEPT ![r] = e]
             /\ adapterCalls' = [adapterCalls EXCEPT ![r] = @ + 1]
             /\ pc' = [pc EXCEPT ![r] = "w_insert"]
             /\ UNCHANGED bodyClosed
        ELSE /\ decoded' = [decoded EXCEPT ![r] = "ok"]
             /\ adapterCalls' = [adapterCalls EXCEPT ![r] = @ + 1]
             /\ pc' = [pc EXCEPT ![r] = "w_insert"]
             /\ UNCHANGED <<writeErrorsTotal, logged, w, err, bodyClosed>>
    /\ UNCHANGED <<samplesWrittenTotal, writeRequestsTotal, readRequestsTotal,
                   readErrorsTotal, path, canceledAt, count>>

\* req, err := DecodeWriteRequest(r.Body) and the err != nil branch; with
\* no error ch.WriteRequest(r.Context(), req) is entered: the insert is in
\* flight.
WriteDecode(r) ==
    /\ pc[r] = "w_decode"
    /\ \E e \in {Nil} \cup DecodeErrs(r) :
        IF e # Nil
        THEN /\ decoded' = [decoded EXCEPT ![r] = "failed"]
             /\ writeErrorsTotal' = writeErrorsTotal + 1
             /\ logged' = [logged EXCEPT ![r] =
                    Append(@, [msg |-> "DecodeWriteRequest", error |-> e])]
             /\ w' = [w EXCEPT ![r] =
                    HttpError(@, ErrorText(e), StatusInternalServerError)]
             /\ err' = [err EXCEPT ![r] = e]
             /\ bodyClosed' = [bodyClosed EXCEPT ![r] = TRUE]
             /\ pc' = [pc EXCEPT ![r] = "done"]
             /\ UNCHANGED adapterCalls
        ELSE /\ decoded' = [decoded EXCEPT ![r] = "ok"]
             /\ adapterCalls' = [adapterCalls EXCEPT ![r] = @ + 1]
             /\ pc' = [pc EXCEPT ![r] = "w_insert"]
             /\ UNCHANGED <<writeErrorsTotal, logged, w, err, bodyClosed>>
    /\ UNCHANGED <<samplesWrittenTotal, writeRequestsTotal, readRequestsTotal,
                   readErrorsTotal, path, canceledAt, count>>

\* A variant that counts one per successful write instead of adding its
\* sample count.
SamplesAfterInc(n) ==
    IF n > 0 THEN samplesWrittenTotal + 1 ELSE samplesWrittenTotal

\* A variant that stores the last count instead of adding it.
SamplesAfterSet(n) ==
    IF n > 0 THEN n ELSE samplesWrittenTotal

\* else if count > 0 { samplesWrittenTotal.Add(float64(count)) }
SamplesAfter(n) ==
    IF n > 0 THEN samplesWrittenTotal + n ELSE samplesWrittenTotal

\* A variant of the handler that fails a write whose context is canceled
\* by the time the insert returns.
WriteReturnChecksContext(r) ==
    /\ pc[r] = "w_insert"
    /\ \E n \in WriteCounts, e0 \in {Nil} \cup WriteErrs(r) :
        LET e == IF e0 = Nil /\ canceledAt[r] # "never" THEN Canceled ELSE e0
        IN  /\ count' = [count EXCEPT ![r] = n]
            /\ err' = [err EXCEPT ![r] = e]
            /\ IF e # Nil
               THEN /\ writeErrorsTotal' = writeErrorsTotal + 1
                    /\ logged' = [logged EXCEPT ![r] =
                           Append(@, [msg |-> "WriteRequest", error |-> e])]
                    /\ w' = [w EXCEPT ![r] =
                           HttpError(@, ErrorText(e),
                                     StatusInternalServerError)]
                    /\ UNCHANGED samplesWrittenTotal
               ELSE /\ samplesWrittenTotal' = SamplesAfter(n)
                    /\ UNCHANGED <<writeErrorsTotal, logged, w>>
    /\ bodyClosed' = [bodyClosed EXCEPT ![r] = TRUE]
    /\ pc' = [pc EXCEPT ![r] = "done"]
    /\ UNCHANGED <<writeRequestsTotal, readRequestsTotal, readErrorsTotal,
                   path, canceledAt, decoded, adapterCalls>>

\* ch.WriteRequest returns (count, err); the handler's if / else if on it,
\* then the deferred r.Body.Close().
WriteReturn(r) ==
    /\ pc[r] = "w_insert"
    /\ \E n \in WriteCounts, e \in {Nil} \cup WriteErrs(r) :
        /\ count' = [count EXCEPT ![r] = n]
        /\ err' = [err EXCEPT ![r] = e]
        /\ IF e # Nil
           THEN /\ writeErrorsTotal' = writeErrorsTotal + 1
                /\ logged' = [logged EXCEPT ![r] =
                       Append(@, [msg |-> "WriteRequest", error |-> e])]
                /\ w' = [w EXCEPT ![r] =
                       HttpError(@, ErrorText(e), StatusInternalServerError)]
                /\ UNCHANGED samplesWrittenTotal
           ELSE /\ samplesWrittenTotal' = SamplesAfter(n)
                /\ UNCHANGED <<writeErrorsTotal, logged, w>>
    /\ bodyClosed' = [bodyClosed EXCEPT ![r] = TRUE]
    /\ pc' = [pc EXCEPT ![r] = "done"]
    /\ UNCHANGED <<writeRequestsTotal, readRequestsTotal, readErrorsTotal,
                   path, canceledAt, decoded, adapterCalls>>

-----------------------------------------------------------------------------
(* The "/read" handler and read() *)

\* readRequestsTotal.Inc()
ReadBegin(r) ==
    /\ pc[r] = "idle"
    /\ path' = [path EXCEPT ![r] = "/read"]
    /\ readRequestsTotal' = readRequestsTotal + 1
    /\ pc' = [pc EXCEPT ![r] = "r_decode"]
    /\ UNCHANGED <<samplesWrittenTotal, writeRequestsTotal, writeErrorsTotal,
                   readErrorsTotal, canceledAt, decoded, adapterCalls, count,
                   err, w, logged, bodyClosed>>

\* A variant that compares the error with context.Canceled itself instead
\* of unwrapping it.
ShouldReportUnlessIdentical(e) == e # Nil /\ e # Canceled

\* The handler's condition on the error read() returned.
ShouldReport(e) == e # Nil /\ ~Is(e, Canceled)

\* A variant that counts a failed read on the write endpoint's error
\* counter.
ReadFinishCountsWriteError(r, rw, e) ==
    /\ err' = [err EXCEPT ![r] = e]
    /\ IF ShouldReport(e)
       THEN /\ writeErrorsTotal' = writeErrorsTotal + 1
            /\ logged' = [logged EXCEPT ![r] =
                   Append(@, [msg |-> "ReadRequest", error |-> e])]
            /\ w' = [w EXCEPT ![r] =
                   HttpError(rw, ErrorText(e), StatusInternalServerError)]
            /\ UNCHANGED readErrorsTotal
       ELSE /\ w' = [w EXCEPT ![r] = rw]
            /\ UNCHANGED <<readErrorsTotal, writeErrorsTotal, logged>>
    /\ bodyClosed' = [bodyClosed EXCEPT ![r] = TRUE]
    /\ pc' = [pc EXCEPT ![r] = "done"]
    /\ UNCHANGED <<samplesWrittenTotal, writeRequestsTotal, readRequestsTotal>>

\* read() returns e, having left the response as rw: the handler's if on
\* it, then the deferred r.Body.Close().
ReadFinish(r, rw, e) ==
    /\ err' = [err EXCEPT ![r] = e]
    /\ IF ShouldReport(e)
       THEN /\ readErrorsTotal' = readErrorsTotal + 1
            /\ logged' = [logged EXCEPT ![r] =
                   Append(@, [msg |-> "ReadRequest", error |-> e])]
            /\ w' = [w EXCEPT ![r] =
                   HttpError(rw, ErrorText(e), StatusInternalServerError)]
       ELSE /\ w' = [w EXCEPT ![r] = rw]
            /\ UNCHANGED <<readErrorsTotal, logged>>
    /\ bodyClosed' = [bodyClosed EXCEPT ![r] = TRUE]
    /\ pc' = [pc EXCEPT ![r] = "done"]
    /\ UNCHANGED <<samplesWrittenTotal, writeRequestsTotal, writeErrorsTotal,
                   readRequestsTotal>>

\* read(): req, err := DecodeReadRequest(r.Body); an error is returned
\* wrapped; with no error ch.ReadRequest(r.Context(), req) is entered: the
\* query is in flight.
ReadDecode(r) ==
    /\ pc[r] = "r_decode"
    /\ \E e \in {Nil} \cup DecodeErrs(r) :
        IF e # Nil
        THEN /\ decoded' = [decoded EXCEPT ![r] = "failed"]
             /\ ReadFinish(r, w[r], Wrap("DecodeReadRequest", e))
             /\ UNCHANGED adapterCalls
        ELSE /\ decoded' = [decoded EXCEPT ![r] = "ok"]
             /\ adapterCalls' = [adapterCalls EXCEPT ![r] = @ + 1]
             /\ pc' = [pc EXCEPT ![r] = "r_query"]
             /\ UNCHANGED <<counters, err, w, logged, bodyClosed>>
    /\ UNCHANGED <<path, canceledAt, count>>

\* A variant that sets the response headers before looking at the error.
ReadReturnHeadersFirst(r) ==
    /\ pc[r] = "r_query"
    /\ \E e \in {Nil} \cup ReadErrs(r) :
        LET rw == HeaderSet(HeaderSet(w[r], "ContentType",
                                      "application/x-protobuf"),
                            "ContentEncoding", "snappy")
        IN  IF e # Nil
            THEN /\ ReadFinish(r, rw, Wrap("ReadRequest", e))
                 /\ UNCHANGED adapterCalls
            ELSE /\ w' = [w EXCEPT ![r] = rw]
                 /\ pc' = [pc EXCEPT ![r] = "r_encode"]
                 /\ UNCHANGED <<counters, err, logged, bodyClosed,
                                adapterCalls>>
    /\ UNCHANGED <<path, canceledAt, decoded, count>>

\* A variant that calls the adapter again after a failed query.
ReadReturnRetries(r) ==
    /\ pc[r] = "r_query"
    /\ \E e \in {Nil} \cup ReadErrs(r) :
        IF e # Nil
        THEN /\ adapterCalls' = [adapterCalls EXCEPT ![r] = @ + 1]
             /\ UNCHANGED <<counters, pc, err, w, logged, bodyClosed>>
        ELSE /\ w' = [w EXCEPT ![r] =
                    HeaderSet(HeaderSet(@, "ContentType",
                                        "application/x-protobuf"),
                              "ContentEncoding", "snappy")]
             /\ pc' = [pc EXCEPT ![r] = "r_encode"]
             /\ UNCHANGED <<counters, err, logged, bodyClosed, adapterCalls>>
    /\ UNCHANGED <<path, canceledAt, decoded, count>>

\* read(): ch.ReadRequest returns (res, err): an error is returned wrapped,
\* on success the two response headers are set.
ReadReturn(r) ==
    /\ pc[r] = "r_query"
    /\ \E e \in {Nil} \cup ReadErrs(r) :
        IF e # Nil
        THEN ReadFinish(r, w[r], Wrap("ReadRequest", e))
        ELSE /\ w' = [w EXCEPT ![r] =
                    HeaderSet(HeaderSet(@, "ContentType",
                                        "application/x-protobuf"),
                              "ContentEncoding", "snappy")]
             /\ pc' = [pc EXCEPT ![r] = "r_encode"]
             /\ UNCHANGED <<counters, err, logged, bodyClosed>>
    /\ UNCHANGED <<path, canceledAt, decoded, adapterCalls, count>>

\* EncodeReadResponse(res, w): the responses and errors it may leave.  It
\* writes the encoded response to w, or fails before anything was written,
\* or fails after part of the body was written.
EncodeReadResponse(r) ==
    {<<Write(w[r], "ReadResponse"), Nil>>}
        \cup {<<rw, e>> : rw \in {w[r], Write(w[r], "ReadResponse (truncated)")},
                          e \in EncodeErrs(r)}

\* read(): if err := EncodeReadResponse(res, w); err != nil, the error is
\* returned wrapped, else nil.
ReadEncode(r) ==
    /\ pc[r] = "r_encode"
    /\ \E out \in EncodeReadResponse(r) :
        ReadFinish(r, out[1],
                   IF out[2] # Nil THEN Wrap("EncodeReadResponse", out[2])
                   ELSE Nil)
    /\ UNCHANGED <<path, canceledAt, decoded, adapterCalls, count>>

-----------------------------------------------------------------------------
Next ==
    \E r \in Reqs :
        \/ Cancel(r)
        \/ Root(r)
        \/ Metrics(r)
        \/ WriteBegin(r)
        \/ WriteDecode(r)
        \/ WriteReturn(r)
        \/ ReadBegin(r)
        \/ ReadDecode(r)
        \/ ReadReturn(r)
        \/ ReadEncode(r)

Spec == Init /\ [][Next]_vars

-----------------------------------------------------------------------------
(* Properties *)

Writes == {r \in Reqs : path[r] = "/write"}
Reads == {r \in Reqs : path[r] = "/read"}
Done(r) == pc[r] = "done"

\* The line http.Error prints for error e.
ErrorLine(e) == ErrorText(e) \o "\n"

\* The body of response rw holds the line of error e.
HasErrorLine(rw, e) == \E i \in 1..Len(rw.body) : rw.body[i] = ErrorLine(e)

\* The stage of read() that returned error e.
Stage(e) == Head(e)

RECURSIVE SumCount(_)
SumCount(S) ==
    IF S = {} THEN 0
    ELSE LET r == CHOOSE x \in S : TRUE
         IN  count[r] + SumCount(S \ {r})

\* C1: a /read whose error wraps context.Canceled, whatever stage of read()
\* returned it, is not counted in readErrorsTotal, logs nothing and gets no
\* server-error response; its request was counted once in readRequestsTotal.
CanceledReadIsNotAnError ==
    /\ \A r \in Reads :
        (Done(r) /\ Is(err[r], Canceled)) =>
            /\ logged[r] = <<>>
            /\ ClientStatus(w[r]) # StatusInternalServerError
            /\ ~HasErrorLine(w[r], err[r])
            /\ w[r].header.ContentType # "text/plain; charset=utf-8"
    /\ readErrorsTotal =
         Cardinality({r \in Reads :
                        Done(r) /\ err[r] # Nil /\ ~Is(err[r], Canceled)})
    /\ readRequestsTotal = Cardinality(Reads)

\* A read canceled after EncodeReadResponse had written part of the body has
\* finished, counted as a request and not as an error.
CanceledReadFinished ==
    \E r \in Reads :
        /\ Done(r)
        /\ Is(err[r], Canceled)
        /\ Stage(err[r]) = "EncodeReadResponse"
        /\ w[r].body # <<>>
        /\ readRequestsTotal > readErrorsTotal

\* C2: a /write that fails in DecodeWriteRequest or in the adapter answers
\* 500 with the error text as plain-text body, adds exactly 1 to
\* writeErrorsTotal and leaves samplesWrittenTotal alone; a /write that
\* succeeds writes no status and no body and leaves writeErrorsTotal alone.
WriteResponseMatchesOutcome ==
    /\ [](\A r \in Writes :
            Done(r) =>
                IF err[r] # Nil
                THEN /\ ClientStatus(w[r]) = StatusInternalServerError
                     /\ w[r].body = <<ErrorLine(err[r])>>
                     /\ w[r].sent.ContentType = "text/plain; charset=utf-8"
                ELSE w[r] = NewResponse)
    /\ [][\A r \in Reqs :
            (path'[r] = "/write" /\ ~Done(r) /\ Done(r)') =>
                IF err'[r] # Nil
                THEN /\ writeErrorsTotal' = writeErrorsTotal + 1
                     /\ samplesWrittenTotal' = samplesWrittenTotal
                ELSE writeErrorsTotal' = writeErrorsTotal]_vars

\* One write failed in the decoder, or in the adapter, and another write
\* succeeded.
WriteFailedAndWriteSucceeded ==
    \E r1, r2 \in Writes :
        /\ Done(r1) /\ err[r1] # Nil
        /\ Done(r2) /\ err[r2] = Nil
        /\ writeErrorsTotal = 1

\* C3: samplesWrittenTotal is the sum of the counts the adapter returned to
\* the writes that succeeded: failed writes and writes of count 0 add
\* nothing, and no addition of concurrent writes is lost.
SamplesAreSumOfSuccessfulCounts ==
    samplesWrittenTotal =
        SumCount({r \in Writes : Done(r) /\ err[r] = Nil})

\* Two writes that were in flight together both succeeded with samples.
TwoWritesAdded ==
    \E r1, r2 \in Writes :
        /\ r1 # r2
        /\ Done(r1) /\ err[r1] = Nil /\ count[r1] > 0
        /\ Done(r2) /\ err[r2] = Nil /\ count[r2] > 0
        /\ samplesWrittenTotal = count[r1] + count[r2]

\* C4: a /read that fails with an error not wrapping context.Canceled, in
\* whichever stage, also in EncodeReadResponse after the headers were set
\* and part of the body written, is answered 500 with a plain-text error
\* description, and readErrorsTotal grows by exactly 1.
FailedReadAnswers500 ==
    /\ \A r \in Reads :
        (Done(r) /\ err[r] # Nil /\ ~Is(err[r], Canceled)) =>
            /\ ClientStatus(w[r]) = StatusInternalServerError
            /\ w[r].sent.ContentType = "text/plain; charset=utf-8"
            /\ w[r].body = <<ErrorLine(err[r])>>
    /\ readErrorsTotal =
         Cardinality({r \in Reads :
                        Done(r) /\ err[r] # Nil /\ ~Is(err[r], Canceled)})

ReadHeadersOnlyAfterQuery ==
    \A r \in Reads :
        /\ (Done(r) /\ err[r] = Nil) =>
            /\ w[r].sent = [ContentType |-> "application/x-protobuf",
                            ContentEncoding |-> "snappy"]
            /\ w[r].body = <<"ReadResponse">>
            /\ ClientStatus(w[r]) = 200
        /\ (\/ pc[r] \in {"r_decode", "r_query"}
            \/ (Done(r) /\ err[r] # Nil
                  /\ Stage(err[r]) \in {"DecodeReadRequest", "ReadRequest"}))
            => \A h \in {w[r].header, w[r].sent} :
                  /\ h.ContentType # "application/x-protobuf"
                  /\ h.ContentEncoding # "snappy"

\* One read succeeded and another failed in the adapter's query.
ReadSucceededAndQueryFailed ==
    \E r1, r2 \in Reads :
        /\ Done(r1) /\ err[r1] = Nil
        /\ Done(r2) /\ err[r2] # Nil /\ Stage(err[r2]) = "ReadRequest"
        /\ ~Is(err[r2], Canceled)

\* C7: no step decreases any of the five counters, and samplesWrittenTotal
\* changes only by a write adding its strictly positive count.
CountersNeverDecrease ==
    [][/\ \A i \in 1..5 : counters'[i] >= counters[i]
       /\ samplesWrittenTotal' # samplesWrittenTotal =>
            \E r \in Reqs :
                /\ pc[r] = "w_insert" /\ Done(r)'
                /\ count'[r] > 0
                /\ samplesWrittenTotal' = samplesWrittenTotal + count'[r]]_vars

\* A write has added its samples and /metrics and / were served or a second
\* write added more: the counter holds what the writes added.
CountersAdvanced ==
    \E r1 \in Writes, r2 \in Reqs :
        /\ Done(r1) /\ err[r1] = Nil /\ count[r1] > 0
        /\ Done(r2) /\ path[r2] = "/metrics"
        /\ samplesWrittenTotal = count[r1]
        /\ writeRequestsTotal = 1

\* C8: a request calls the adapter at most once; after the adapter failed
\* the request is over, the adapter is not called again for it.
AdapterCalledAtMostOnce ==
    \A r \in Reqs :
        /\ adapterCalls[r] <= 1
        /\ path[r] \in {"", "/", "/metrics"} => adapterCalls[r] = 0
        /\ (adapterCalls[r] = 1 /\ pc[r] \notin {"w_insert", "r_query"}) =>
             \/ Done(r)
             \/ pc[r] = "r_encode" /\ err[r] = Nil

\* A write and a read have both failed in the adapter.
AdapterFailedForWriteAndRead ==
    \E r1 \in Writes, r2 \in Reads :
        /\ Done(r1) /\ err[r1] # Nil /\ adapterCalls[r1] = 1
        /\ Done(r2) /\ err[r2] # Nil /\ adapterCalls[r2] = 1
        /\ Stage(err[r2]) = "ReadRequest"

\* C9: the adapter is called only for a request whose body was decoded: a
\* request whose decode failed is over without a call of the adapter and
\* without a count.
AdapterOnlyAfterDecode ==
    \A r \in Reqs :
        /\ adapterCalls[r] > 0 => decoded[r] = "ok"
        /\ decoded[r] = "failed" =>
             /\ Done(r)
             /\ err[r] # Nil
             /\ adapterCalls[r] = 0
             /\ count[r] = 0
        /\ decoded[r] = "ok" => adapterCalls[r] = 1

\* A write and a read have both failed in the decoder.
DecodeFailedForWriteAndRead ==
    \E r1 \in Writes, r2 \in Reads :
        /\ decoded[r1] = "failed" /\ Done(r1)
        /\ decoded[r2] = "failed" /\ Done(r2)
        /\ samplesWrittenTotal = 0

\* C10: the error counters never exceed the request counters; a request
\* counts itself once, as its first step, and counts at most one error; a
\* step of a /write leaves the read counters alone, a step of a /read the
\* write counters and samplesWrittenTotal.
ErrorsWithinRequests ==
    /\ [](/\ writeErrorsTotal <= writeRequestsTotal
          /\ readErrorsTotal <= readRequestsTotal
          /\ writeRequestsTotal = Cardinality(Writes)
          /\ readRequestsTotal = Cardinality(Reads)
          /\ writeErrorsTotal <= Cardinality({r \in Writes : Done(r)})
          /\ readErrorsTotal <= Cardinality({r \in Reads : Done(r)}))
    /\ [][\A r \in Reqs :
            pc'[r] # pc[r] =>
                /\ path'[r] = "/write" =>
                     /\ readRequestsTotal' = readRequestsTotal
                     /\ readErrorsTotal' = readErrorsTotal
                     /\ writeRequestsTotal' =
                          writeRequestsTotal + (IF pc[r] = "idle" THEN 1 ELSE 0)
                     /\ writeErrorsTotal' \in
                          {writeErrorsTotal,
                           IF Done(r)' THEN writeErrorsTotal + 1
                           ELSE writeErrorsTotal}
                /\ path'[r] = "/read" =>
                     /\ writeRequestsTotal' = writeRequestsTotal
                     /\ writeErrorsTotal' = writeErrorsTotal
                     /\ samplesWrittenTotal' = samplesWrittenTotal
                     /\ readRequestsTotal' =
                          readRequestsTotal + (IF pc[r] = "idle" THEN 1 ELSE 0)
                     /\ readErrorsTotal' \in
                          {readErrorsTotal,
                           IF Done(r)' THEN readErrorsTotal + 1
                           ELSE readErrorsTotal}]_vars

\* Every request failed and was counted as an error: one write, one read.
EveryRequestAnError ==
    /\ writeErrorsTotal = writeRequestsTotal
    /\ readErrorsTotal = readRequestsTotal
    /\ writeErrorsTotal > 0
    /\ readErrorsTotal > 0
====
